---- MODULE Spec2Model ----
(***************************************************************************)
(* A model of route_tracker.py: the routing-table parser, the snapshot     *)
(* differ, the change recorder (log file and CSV file), the monitor loop   *)
(* and the command-line entry point.                                       *)
(*                                                                         *)
(* Text.  A line of routing-table text is a sequence of chunks             *)
(* [gap, tok]: a whitespace-delimited token and the number of blanks that  *)
(* stand before it (0 only for a first token at the start of the line).    *)
(* The token universe holds no token other than "default" that begins or   *)
(* ends with "default", and no token other than "via" that contains "via". *)
(*                                                                         *)
(* Dictionaries.  A Python dict is a sequence of [key, value] entries in   *)
(* insertion order with pairwise distinct keys.                            *)
(***************************************************************************)
EXTENDS Integers, Sequences, FiniteSets, TLC

VARIABLES
    pc,                \* where the process stands
    interval,          \* args.interval
    test_mode,         \* args.test
    constructed,       \* a RouteTracker has been constructed by this process
    log_to_console,    \* self.log_to_console
    file_stamp,        \* the timestamp in the names of self.log_file and self.csv_file
    log_exists, log,   \* the log file: whether it exists, and its records
    csv_exists, csv,   \* the CSV file: whether it exists, and its rows
    console,           \* what the process has written to the terminal
    previous_routes, previous_gateway,   \* the baseline snapshot of monitor
    current_output,    \* the lines the last poll returned
    current_routes, current_gateway,     \* the snapshot parsed from them
    added, removed,    \* the result of the last compare_routes
    source_status,     \* how the last run of 'ip route' ended
    polls,             \* calls of get_current_routes made by this process
    renders,           \* calls of create_topology_graph made by this process
    io_failed,         \* the writes that failed in this process
    error,             \* the exception that ended the process, if any
    now,               \* the wall clock, in seconds
    restarts,          \* how often the program has been started again
    pair               \* two monitors fed the same polls, one with and one
                       \* without console output (used by SpecPair only)

vars == <<pc, interval, test_mode, constructed, log_to_console, file_stamp,
          log_exists, log, csv_exists, csv, console,
          previous_routes, previous_gateway, current_output, current_routes,
          current_gateway, added, removed, source_status, polls, renders,
          io_failed, error, now, restarts, pair>>

\* --------------------------------------------------------------- bounds
\* The clock value past which no further sleep is taken.
MaxClock == 2
\* The number of times the program is started again after it has ended.
MaxRestarts == 1

\* ------------------------------------------------------------ constants
\* Python's None (an absent gateway, an unpopulated metric).
None == "<None>"
\* The next-hop descriptor of a directly connected route.
Direct == "direct"

\* ----------------------------------------------------------------- text
\* A line whose tokens are separated by single blanks, with no leading blank.
Line(toks) ==
    [i \in 1..Len(toks) |-> [gap |-> IF i = 1 THEN 0 ELSE 1, tok |-> toks[i]]]

\* line.split(): the whitespace-delimited tokens.
Split(line) == [i \in 1..Len(line) |-> line[i].tok]

\* str.startswith("default") on the raw line.
StartsWithDefault(line) ==
    /\ Len(line) >= 1
    /\ line[1].gap = 0
    /\ line[1].tok = "default"

\* re.search(r'default via (\S+)', line): the positions i where a token ending
\* in "default" is followed by exactly one blank, the token "via", exactly one
\* blank and a token.  The leftmost is the match; group(1) is token i+2.
DefaultViaPositions(line) ==
    {i \in 1..Len(line) :
        /\ i + 2 <= Len(line)
        /\ line[i].tok = "default"
        /\ line[i+1].gap = 1 /\ line[i+1].tok = "via"
        /\ line[i+2].gap = 1}

\* re.search(r'(\S+)\s+via\s+(\S+)', line): the positions i of a token that is
\* followed by the token "via" and a further token.  The leftmost is the match;
\* group(1) is token i and group(2) is token i+2.
ViaPositions(line) ==
    {i \in 1..Len(line) : i + 2 <= Len(line) /\ line[i+1].tok = "via"}

Leftmost(S) == CHOOSE i \in S : \A j \in S : i <= j

\* ---------------------------------------------------------- dictionaries
Keys(d) == {d[i].key : i \in 1..Len(d)}
KeyList(d) == [i \in 1..Len(d) |-> d[i].key]
ValueList(d) == [i \in 1..Len(d) |-> d[i].value]
Has(d, k) == k \in Keys(d)
Get(d, k) == d[CHOOSE i \in 1..Len(d) : d[i].key = k].value
\* d.setdefault(k, v): an existing key keeps its value.
DictSetDefault(d, k, v) ==
    IF Has(d, k) THEN d ELSE Append(d, [key |-> k, value |-> v])

\* d[k] = v: a new key is appended, an existing key keeps its place.
DictSet(d, k, v) ==
    IF Has(d, k)
    THEN [i \in 1..Len(d) |-> IF d[i].key = k THEN [key |-> k, value |-> v] ELSE d[i]]
    ELSE Append(d, [key |-> k, value |-> v])

\* The route value (admin_distance, metric, next_hop) the parser builds.
RouteValue(next_hop) == <<None, None, next_hop>>
NextHop(value) == value[3]

\* --------------------------------------------------------------- parser
\* ParseLine without the `continue` that ends the handling of a default line.
ParseLineNoContinue(acc, line) ==
    LET g == IF StartsWithDefault(line) /\ DefaultViaPositions(line) # {}
             THEN [acc EXCEPT !.gateway = line[Leftmost(DefaultViaPositions(line)) + 2].tok]
             ELSE acc
    IN  IF ViaPositions(line) # {}
        THEN LET i == Leftmost(ViaPositions(line))
             IN  [g EXCEPT !.routes = DictSet(@, line[i].tok, RouteValue(line[i+2].tok))]
        ELSE LET parts == Split(line)
             IN  IF Len(parts) >= 1 /\ parts[1] # "default"
                 THEN [g EXCEPT !.routes = DictSet(@, parts[1], RouteValue(Direct))]
                 ELSE g

\* One iteration of the loop of parse_routes over `line`.
ParseLine(acc, line) ==
    IF StartsWithDefault(line) /\ DefaultViaPositions(line) # {}
    THEN [acc EXCEPT !.gateway = line[Leftmost(DefaultViaPositions(line)) + 2].tok]
    ELSE IF ViaPositions(line) # {}
    THEN LET i == Leftmost(ViaPositions(line))
         IN  [acc EXCEPT !.routes = DictSet(@, line[i].tok, RouteValue(line[i+2].tok))]
    ELSE LET parts == Split(line)
         IN  IF Len(parts) >= 1 /\ parts[1] # "default"
             THEN [acc EXCEPT !.routes = DictSet(@, parts[1], RouteValue(Direct))]
             ELSE acc

RECURSIVE ParseFrom(_, _)
ParseFrom(acc, output) ==
    IF output = <<>> THEN acc
    ELSE ParseFrom(ParseLine(acc, Head(output)), Tail(output))

\* RouteTracker.parse_routes: (routes, gateway) of a sequence of lines.
parse_routes(output) == ParseFrom([routes |-> <<>>, gateway |-> None], output)

\* --------------------------------------------------------------- differ
KeyNotIn(d, e) == ~Has(d, e.key)

\* compare_routes with the two comprehensions exchanged.
compare_routes_swapped(before, after) ==
    [added   |-> SelectSeq(before, LAMBDA e : KeyNotIn(after, e)),
     removed |-> SelectSeq(after, LAMBDA e : KeyNotIn(before, e))]

EntryNotIn(d, e) == \A i \in 1..Len(d) : d[i] # e
\* compare_routes testing membership of the (destination, value) item.
compare_routes_by_value(before, after) ==
    [added   |-> SelectSeq(after, LAMBDA e : EntryNotIn(before, e)),
     removed |-> SelectSeq(before, LAMBDA e : EntryNotIn(after, e))]

\* RouteTracker.compare_routes: the entries of `after` whose key is not in
\* `before`, and the entries of `before` whose key is not in `after`.
compare_routes(before, after) ==
    [added   |-> SelectSeq(after, LAMBDA e : KeyNotIn(before, e)),
     removed |-> SelectSeq(before, LAMBDA e : KeyNotIn(after, e))]

\* ------------------------------------------------------------- recorder
\* datetime.strftime / logging's asctime: the clock as text.
Strftime(t) == ToString(t)

\* The record logging.info(message) formats with '%(asctime)s - %(message)s'.
LogRecord(t, level, what, d) ==
    [asctime |-> Strftime(t), levelname |-> level, what |-> what,
     routes |-> KeyList(d), metrics |-> ValueList(d)]

\* RouteTracker.log_changes: the records it hands to logging, in order.
log_changes(a, r, t) ==
    (IF a # <<>> THEN <<LogRecord(t, "INFO", "Added routes", a)>> ELSE <<>>)
    \o (IF r # <<>> THEN <<LogRecord(t, "INFO", "Removed routes", r)>> ELSE <<>>)

\* csv.writer's rendering of a field: None is written as the empty string.
CsvField(v) == IF v = None THEN "" ELSE v

HeaderRow == <<"Change Type", "Route", "Admin Distance", "Metric", "Next Hop", "Timestamp">>

\* A row whose next hop is read from the metric position of the route value.
CsvRowWrongIndex(change_type, e, timestamp) ==
    <<change_type, e.key, CsvField(e.value[1]), CsvField(e.value[2]),
      CsvField(e.value[2]), timestamp>>

CsvRow(change_type, e, timestamp) ==
    <<change_type, e.key, CsvField(e.value[1]), CsvField(e.value[2]),
      CsvField(e.value[3]), timestamp>>

CsvRows(change_type, d, timestamp) ==
    [i \in 1..Len(d) |-> CsvRow(change_type, d[i], timestamp)]

\* save_to_csv writing the removed routes before the added ones.
CsvWritesRemovedFirst(exists, rows, a, r, t) ==
    LET file_exists == exists /\ Len(rows) > 0
        timestamp == Strftime(t)
    IN  (IF ~file_exists THEN <<HeaderRow>> ELSE <<>>)
        \o CsvRows("Removed", r, timestamp)
        \o CsvRows("Added", a, timestamp)

\* save_to_csv writing the header on every call.
CsvWritesHeaderAlways(exists, rows, a, r, t) ==
    <<HeaderRow>> \o CsvRows("Added", a, Strftime(t)) \o CsvRows("Removed", r, Strftime(t))

\* RouteTracker.save_to_csv: the rows one call writes to the file, in order,
\* given whether the file exists and the rows it holds.
CsvWrites(exists, rows, a, r, t) ==
    LET file_exists == exists /\ Len(rows) > 0
        timestamp == Strftime(t)
    IN  (IF ~file_exists THEN <<HeaderRow>> ELSE <<>>)
        \o CsvRows("Added", a, timestamp)
        \o CsvRows("Removed", r, timestamp)

\* The file after a call of save_to_csv that ran to its end.
save_to_csv(exists, rows, a, r, t) == rows \o CsvWrites(exists, rows, a, r, t)

\* ------------------------------------------------------------ decisions
\* main testing `args.interval < 0`.
IntervalRejectedBelowZero(i) == i < 0

\* monitor without the test `if added or removed`.
ChangedAlways(a, r) == TRUE

\* main: `if args.interval < 1`.
IntervalRejected(i) == i < 1

\* `if added:` in place of `if added or removed:`.
ChangedOnAdditionOnly(a, r) == a # <<>>

\* monitor and run_test: `if added or removed`.
Changed(a, r) == a # <<>> \/ r # <<>>

\* ---------------------------------------------------------- environment
\* The values of --interval that are tried.
Intervals == {-1, 0, 1}

\* What 'ip route' may print: an empty table; a table with a default gateway
\* and a route through it; the same with another next hop; the same with
\* another gateway; the same without gateway; a table with another route.
SourceOutputs ==
    { <<>>,
      << Line(<<"default", "via", "192.168.1.1", "dev", "eth0">>),
         Line(<<"10.0.0.0/8", "via", "192.168.1.1", "dev", "eth0">>) >>,
      << Line(<<"default", "via", "192.168.1.1", "dev", "eth0">>),
         Line(<<"10.0.0.0/8", "via", "192.168.1.2", "dev", "eth0">>) >>,
      << Line(<<"default", "via", "192.168.1.2", "dev", "eth0">>),
         Line(<<"10.0.0.0/8", "via", "192.168.1.1", "dev", "eth0">>) >>,
      << Line(<<"10.0.0.0/8", "via", "192.168.1.1", "dev", "eth0">>) >>,
      << Line(<<"192.168.2.0/24", "dev", "eth0">>) >> }

\* What 'ip route' has printed on stdout when it ends with a non-zero status:
\* its complaint goes to stderr.
FailedOutputs == { <<>> }

\* before_routes and after_routes of run_test.
before_routes ==
    << Line(<<"default", "via", "192.168.1.1", "dev", "eth0">>),
       Line(<<"192.168.1.0/24", "dev", "eth0", "proto", "kernel", "scope", "link",
              "src", "192.168.1.100">>),
       Line(<<"172.16.0.0/16", "via", "192.168.1.1", "dev", "eth0">>),
       Line(<<"10.0.0.0/8", "via", "192.168.1.1", "dev", "eth0">>) >>

after_routes ==
    << Line(<<"default", "via", "192.168.1.1", "dev", "eth0">>),
       Line(<<"192.168.1.0/24", "dev", "eth0", "proto", "kernel", "scope", "link",
              "src", "192.168.1.100">>),
       Line(<<"172.16.0.0/16", "via", "192.168.1.1", "dev", "eth0">>),
       Line(<<"10.0.0.0/8", "via", "192.168.1.2", "dev", "eth0">>),
       Line(<<"192.168.2.0/24", "via", "192.168.1.1", "dev", "eth0">>) >>

\* subprocess.run(['ip', 'route'], capture_output=True, text=True) as called by
\* get_current_routes, without check=True: a run that ends with status 0 or
\* with a non-zero status returns its stdout; a command that cannot be started
\* raises an OSError (FileNotFoundError), which is no CalledProcessError.
SourceRuns ==
    [status : {"ok"}, stdout : SourceOutputs]
    \cup [status : {"nonzero"}, stdout : FailedOutputs]
    \cup [status : {"unavailable"}, stdout : {<<>>}]

\* RouteTracker.get_current_routes on a run of the source: the lines it
\* returns, the records it logs and the exception it lets through.
get_current_routes(run) ==
    IF run.status = "unavailable"
    THEN [lines |-> <<>>, logged |-> <<>>, raised |-> "FileNotFoundError"]
    ELSE [lines |-> run.stdout, logged |-> <<>>, raised |-> None]

\* -------------------------------------------------------------- console
\* print(...): the terminal gets the messages when log_to_console is set.
Echo(out, on, msgs) == IF on THEN out \o msgs ELSE out

\* RouteTracker.print_route_summary: the lines it prints.
print_route_summary(routes, gateway) ==
    LET direct_routes == Cardinality({i \in 1..Len(routes) : NextHop(routes[i].value) = Direct})
        gateway_routes == Cardinality({i \in 1..Len(routes) : NextHop(routes[i].value) # Direct})
    IN  << <<"Route Summary", Len(routes), direct_routes, gateway_routes>> >>
        \o (IF gateway # None THEN << <<"Default Gateway", gateway>> >> ELSE <<>>)

\* The lines monitor and run_test print when a change is detected.
ChangeNotice(a, r) ==
    << <<"Routing changes detected!">> >>
    \o (IF a # <<>> THEN << <<"Added routes:", KeyList(a)>> >> ELSE <<>>)
    \o (IF r # <<>> THEN << <<"Removed routes:", KeyList(r)>> >> ELSE <<>>)

\* The console handler __init__ adds to the root logger echoes every record.
LogEcho(records) == [i \in 1..Len(records) |-> <<"log", records[i].what, records[i].routes>>]

\* ------------------------------------------------------- monitor, whole
\* The fields of a RouteTracker and of its monitor that outlive a cycle.
NewTracker(console_on) ==
    [log_to_console |-> console_on,
     log |-> <<>>, csv_exists |-> FALSE, csv |-> <<>>,
     console |-> Echo(<<>>, console_on, << <<"Log file">>, <<"CSV file">> >>),
     previous_routes |-> <<>>, previous_gateway |-> None]

\* monitor up to its loop, on the lines of the first poll.
monitor_start(t, lines, seconds) ==
    LET s == parse_routes(lines)
    IN  [t EXCEPT !.previous_routes = s.routes,
                  !.previous_gateway = s.gateway,
                  !.console = Echo(@, t.log_to_console,
                      << <<"Starting route monitoring", seconds>>,
                         <<"Press Ctrl+C to stop monitoring.">> >>
                      \o print_route_summary(s.routes, s.gateway))]

\* monitor_cycle with the recording nested in `if self.log_to_console:`.
monitor_cycle_console_gated(t, lines, clock) ==
    LET s == parse_routes(lines)
        d == compare_routes(t.previous_routes, s.routes)
    IN  IF Changed(d.added, d.removed)
        THEN IF t.log_to_console
             THEN [t EXCEPT
                     !.console = Echo(@, t.log_to_console,
                         ChangeNotice(d.added, d.removed)
                         \o LogEcho(log_changes(d.added, d.removed, clock))
                         \o print_route_summary(s.routes, s.gateway)
                         \o << <<"Updating topology graph...">> >>),
                     !.log = @ \o log_changes(d.added, d.removed, clock),
                     !.csv = save_to_csv(t.csv_exists, t.csv, d.added, d.removed, clock),
                     !.csv_exists = TRUE,
                     !.previous_routes = s.routes,
                     !.previous_gateway = s.gateway]
             ELSE [t EXCEPT !.previous_routes = s.routes,
                            !.previous_gateway = s.gateway]
        ELSE t

\* One pass of the loop of monitor that nothing interrupts and in which no
\* write and no rendering fails, on the lines of its poll at time `clock`.
monitor_cycle(t, lines, clock) ==
    LET s == parse_routes(lines)
        d == compare_routes(t.previous_routes, s.routes)
    IN  IF Changed(d.added, d.removed)
        THEN [t EXCEPT
                !.console = Echo(@, t.log_to_console,
                    ChangeNotice(d.added, d.removed)
                    \o LogEcho(log_changes(d.added, d.removed, clock))
                    \o print_route_summary(s.routes, s.gateway)
                    \o << <<"Updating topology graph...">> >>),
                !.log = @ \o log_changes(d.added, d.removed, clock),
                !.csv = save_to_csv(t.csv_exists, t.csv, d.added, d.removed, clock),
                !.csv_exists = TRUE,
                !.previous_routes = s.routes,
                !.previous_gateway = s.gateway]
        ELSE t

PairStartState ==
    [pc |-> "monitor", now |-> 0, loud |-> NewTracker(TRUE), quiet |-> NewTracker(FALSE)]

\* ---------------------------------------------------------------- state
\* The elements of seq at the positions in S, in order.
Restrict(seq, S) ==
    LET F[i \in 0..Len(seq)] ==
            IF i = 0 THEN <<>>
            ELSE IF i \in S THEN Append(F[i-1], seq[i]) ELSE F[i-1]
    IN  F[Len(seq)]

files == <<file_stamp, log_exists, log, csv_exists, csv>>
baseline == <<previous_routes, previous_gateway>>
snapshot == <<current_output, current_routes, current_gateway, added, removed>>
arguments == <<interval, test_mode>>

\* A process that has just been started: nothing parsed, nothing constructed.
FreshProcess ==
    /\ pc = "start"
    /\ interval = None
    /\ test_mode = FALSE
    /\ constructed = FALSE
    /\ log_to_console = FALSE
    /\ console = <<>>
    /\ previous_routes = <<>>
    /\ previous_gateway = None
    /\ current_output = <<>>
    /\ current_routes = <<>>
    /\ current_gateway = None
    /\ added = <<>>
    /\ removed = <<>>
    /\ source_status = "none"
    /\ polls = 0
    /\ renders = 0
    /\ io_failed = {}
    /\ error = None

Init ==
    /\ FreshProcess
    /\ file_stamp = None
    /\ log_exists = FALSE
    /\ log = <<>>
    /\ csv_exists = FALSE
    /\ csv = <<>>
    /\ now = 0
    /\ restarts = 0
    /\ pair = PairStartState

\* RouteTracker.__init__: the file names carry the second of construction, so
\* a tracker constructed in the second of an earlier one has the same files.
\* logging.basicConfig(filename=...) opens the log file for appending, which
\* creates it; the CSV file is not touched.
Construct(no_console) ==
    LET same == file_stamp = Strftime(now)
    IN  /\ constructed' = TRUE
        /\ log_to_console' = ~no_console
        /\ file_stamp' = Strftime(now)
        /\ log_exists' = TRUE
        /\ log' = IF same THEN log ELSE <<>>
        /\ csv_exists' = IF same THEN csv_exists ELSE FALSE
        /\ csv' = IF same THEN csv ELSE <<>>
        /\ console' = Echo(console, ~no_console, << <<"Log file">>, <<"CSV file">> >>)

\* main: parse the arguments, reject an interval below 1, else construct the
\* tracker (run_test and run_tracker both begin with that).
Main ==
    /\ pc = "start"
    /\ \E i \in Intervals, t \in BOOLEAN, no_console \in BOOLEAN :
        /\ interval' = i
        /\ test_mode' = t
        /\ IF IntervalRejected(i)
           THEN /\ console' = Append(console, <<"Error: Interval must be at least 1 second">>)
                /\ pc' = "exit"
                /\ UNCHANGED <<constructed, log_to_console, files>>
           ELSE /\ Construct(no_console)
                /\ pc' = IF t THEN "test" ELSE "monitor"
    /\ UNCHANGED <<baseline, snapshot, source_status, polls, renders, io_failed,
                   error, now, restarts>>
    /\ UNCHANGED pair

\* monitor treating the first table as a change against an empty baseline.
MonitorStartReportsInitial ==
    /\ pc = "monitor"
    /\ \E run \in SourceRuns :
        LET r == get_current_routes(run)
            s == parse_routes(r.lines)
            banner == << <<"Starting route monitoring", interval>>,
                         <<"Press Ctrl+C to stop monitoring.">> >>
        IN  /\ source_status' = run.status
            /\ polls' = polls + 1
            /\ current_output' = r.lines
            /\ log' = log \o r.logged
            /\ console' = Echo(console, log_to_console, banner)
            /\ IF r.raised # None
               THEN /\ pc' = "crashed"
                    /\ error' = r.raised
                    /\ UNCHANGED <<current_routes, current_gateway, added, removed>>
               ELSE /\ current_routes' = s.routes
                    /\ current_gateway' = s.gateway
                    /\ added' = s.routes
                    /\ removed' = <<>>
                    /\ pc' = IF s.routes # <<>> THEN "log" ELSE "sleep"
                    /\ UNCHANGED error
    /\ UNCHANGED <<arguments, constructed, log_to_console, file_stamp, log_exists,
                   csv_exists, csv, baseline, renders, io_failed, now, restarts>>
    /\ UNCHANGED pair

\* monitor, up to the loop: the first poll seeds the baseline.
MonitorStart ==
    /\ pc = "monitor"
    /\ \E run \in SourceRuns :
        LET r == get_current_routes(run)
            s == parse_routes(r.lines)
            banner == << <<"Starting route monitoring", interval>>,
                         <<"Press Ctrl+C to stop monitoring.">> >>
        IN  /\ source_status' = run.status
            /\ polls' = polls + 1
            /\ current_output' = r.lines
            /\ log' = log \o r.logged
            /\ IF r.raised # None
               THEN /\ pc' = "crashed"
                    /\ error' = r.raised
                    /\ console' = Echo(console, log_to_console, banner)
                    /\ UNCHANGED baseline
               ELSE /\ previous_routes' = s.routes
                    /\ previous_gateway' = s.gateway
                    /\ console' = Echo(console, log_to_console,
                                       banner \o print_route_summary(s.routes, s.gateway))
                    /\ pc' = "sleep"
                    /\ UNCHANGED error
    /\ UNCHANGED <<arguments, constructed, log_to_console, file_stamp, log_exists,
                   csv_exists, csv, current_routes, current_gateway, added, removed,
                   renders, io_failed, now, restarts>>
    /\ UNCHANGED pair

\* time.sleep(interval) at the top of the loop.
Sleep ==
    /\ pc = "sleep"
    /\ now < MaxClock
    /\ now' = now + interval
    /\ pc' = "poll"
    /\ UNCHANGED <<arguments, constructed, log_to_console, files, console, baseline,
                   snapshot, source_status, polls, renders, io_failed, error, restarts>>
    /\ UNCHANGED pair

\* The poll of the loop storing the polled gateway in the baseline when no
\* route key changed.
PollTracksGateway ==
    /\ pc = "poll"
    /\ \E run \in SourceRuns :
        LET r == get_current_routes(run)
            s == parse_routes(r.lines)
            d == compare_routes(previous_routes, s.routes)
        IN  /\ source_status' = run.status
            /\ polls' = polls + 1
            /\ current_output' = r.lines
            /\ log' = log \o r.logged
            /\ IF r.raised # None
               THEN /\ pc' = "crashed"
                    /\ error' = r.raised
                    /\ UNCHANGED <<current_routes, current_gateway, added, removed, console>>
                    /\ UNCHANGED previous_gateway
               ELSE /\ current_routes' = s.routes
                    /\ current_gateway' = s.gateway
                    /\ added' = d.added
                    /\ removed' = d.removed
                    /\ IF Changed(d.added, d.removed)
                       THEN /\ console' = Echo(console, log_to_console,
                                               ChangeNotice(d.added, d.removed))
                            /\ pc' = "log"
                            /\ UNCHANGED previous_gateway
                       ELSE /\ pc' = "sleep"
                            /\ previous_gateway' = s.gateway
                            /\ UNCHANGED console
                    /\ UNCHANGED error
    /\ UNCHANGED <<arguments, constructed, log_to_console, file_stamp, log_exists,
                   csv_exists, csv, previous_routes, renders, io_failed, now, restarts>>
    /\ UNCHANGED pair

\* The poll of a cycle: get_current_routes, parse_routes, compare_routes and
\* the test `if added or removed`.
Poll ==
    /\ pc = "poll"
    /\ \E run \in SourceRuns :
        LET r == get_current_routes(run)
            s == parse_routes(r.lines)
            d == compare_routes(previous_routes, s.routes)
        IN  /\ source_status' = run.status
            /\ polls' = polls + 1
            /\ current_output' = r.lines
            /\ log' = log \o r.logged
            /\ IF r.raised # None
               THEN /\ pc' = "crashed"
                    /\ error' = r.raised
                    /\ UNCHANGED <<current_routes, current_gateway, added, removed, console>>
               ELSE /\ current_routes' = s.routes
                    /\ current_gateway' = s.gateway
                    /\ added' = d.added
                    /\ removed' = d.removed
                    /\ IF Changed(d.added, d.removed)
                       THEN /\ console' = Echo(console, log_to_console,
                                               ChangeNotice(d.added, d.removed))
                            /\ pc' = "log"
                       ELSE /\ pc' = "sleep"
                            /\ UNCHANGED console
                    /\ UNCHANGED error
    /\ UNCHANGED <<arguments, constructed, log_to_console, file_stamp, log_exists,
                   csv_exists, csv, baseline, renders, io_failed, now, restarts>>
    /\ UNCHANGED pair

\* run_test, up to the recording: both embedded tables are parsed and compared.
RunTest ==
    /\ pc = "test"
    /\ LET b == parse_routes(before_routes)
           a == parse_routes(after_routes)
           d == compare_routes(b.routes, a.routes)
           changed == Changed(d.added, d.removed)
       IN  /\ previous_routes' = b.routes
           /\ previous_gateway' = b.gateway
           /\ current_output' = after_routes
           /\ current_routes' = a.routes
           /\ current_gateway' = a.gateway
           /\ added' = d.added
           /\ removed' = d.removed
           /\ console' = Echo(console, log_to_console,
                   << <<"Running in test mode with mock route tables...">> >>
                   \o print_route_summary(b.routes, b.gateway)
                   \o (IF changed THEN ChangeNotice(d.added, d.removed)
                       ELSE << <<"Test completed.">> >>))
           /\ pc' = IF changed THEN "log" ELSE "done"
    /\ UNCHANGED <<arguments, constructed, log_to_console, files, source_status,
                   polls, renders, io_failed, error, now, restarts>>
    /\ UNCHANGED pair

\* self.log_changes(added, removed).  A record the file handler cannot write
\* is not raised to the caller: logging.Handler.handleError reports it on
\* stderr and logging.info returns, so the call ends normally whichever of its
\* records reach the file.
LogChanges ==
    /\ pc = "log"
    /\ LET records == log_changes(added, removed, now)
       IN  /\ \E written \in SUBSET (1..Len(records)) :
                /\ log' = log \o Restrict(records, written)
                /\ io_failed' = IF written = 1..Len(records) THEN io_failed
                                ELSE io_failed \cup {"log"}
           /\ console' = Echo(console, log_to_console, LogEcho(records))
    /\ pc' = "csv"
    /\ UNCHANGED <<arguments, constructed, log_to_console, file_stamp, log_exists,
                   csv_exists, csv, baseline, snapshot, source_status, polls, renders,
                   error, now, restarts>>
    /\ UNCHANGED pair

\* self.save_to_csv(added, removed) running to its end, followed by the
\* summary and the notice that precede the renderer.
SaveToCsv ==
    /\ pc = "csv"
    /\ csv' = save_to_csv(csv_exists, csv, added, removed, now)
    /\ csv_exists' = TRUE
    /\ console' = Echo(console, log_to_console,
            print_route_summary(current_routes, current_gateway)
            \o << <<IF test_mode THEN "Creating topology graph..."
                                  ELSE "Updating topology graph...">> >>)
    /\ pc' = "render"
    /\ UNCHANGED <<arguments, constructed, log_to_console, file_stamp, log_exists, log,
                   baseline, snapshot, source_status, polls, renders, io_failed, error,
                   now, restarts>>
    /\ UNCHANGED pair

\* self.save_to_csv(added, removed) failing: open() raises and the file is as
\* it was, or a write raises after some of the rows and the `with` block closes
\* the file with the rows written so far.  save_to_csv, monitor and run_test
\* catch no OSError.
SaveToCsvFails ==
    /\ pc = "csv"
    /\ LET writes == CsvWrites(csv_exists, csv, added, removed, now)
       IN  \E opened \in BOOLEAN, k \in 0..(Len(writes) - 1) :
             IF opened
             THEN /\ csv_exists' = TRUE
                  /\ csv' = csv \o SubSeq(writes, 1, k)
             ELSE /\ k = 0
                  /\ UNCHANGED <<csv_exists, csv>>
    /\ io_failed' = io_failed \cup {"csv"}
    /\ error' = "OSError"
    /\ pc' = "crashed"
    /\ UNCHANGED <<arguments, constructed, log_to_console, file_stamp, log_exists, log,
                   console, baseline, snapshot, source_status, polls, renders, now,
                   restarts>>
    /\ UNCHANGED pair

\* self.create_topology_graph(current_routes, current_gateway): the renderer
\* returns, or raises an exception that nothing catches.
CreateTopologyGraph ==
    /\ pc = "render"
    /\ renders' = renders + 1
    /\ \E returned \in BOOLEAN :
        IF returned
        THEN /\ pc' = IF test_mode THEN "done" ELSE "update"
             /\ console' = IF test_mode
                           THEN Echo(console, log_to_console, << <<"Test completed.">> >>)
                           ELSE console
             /\ UNCHANGED error
        ELSE /\ pc' = "crashed"
             /\ error' = "RendererError"
             /\ UNCHANGED console
    /\ UNCHANGED <<arguments, constructed, log_to_console, files, baseline, snapshot,
                   source_status, polls, io_failed, now, restarts>>
    /\ UNCHANGED pair

\* The baseline update without `previous_gateway = current_gateway`.
UpdateBaselineKeepsGateway ==
    /\ pc = "update"
    /\ previous_routes' = current_routes
    /\ pc' = "sleep"
    /\ UNCHANGED <<arguments, constructed, log_to_console, files, console, snapshot,
                   source_status, polls, renders, io_failed, error, now, restarts,
                   previous_gateway, pair>>

\* previous_routes = current_routes; previous_gateway = current_gateway.
UpdateBaseline ==
    /\ pc = "update"
    /\ previous_routes' = current_routes
    /\ previous_gateway' = current_gateway
    /\ pc' = "sleep"
    /\ UNCHANGED <<arguments, constructed, log_to_console, files, console, snapshot,
                   source_status, polls, renders, io_failed, error, now, restarts>>
    /\ UNCHANGED pair

\* The positions of monitor that lie inside its try block.
InTry == ~test_mode /\ pc \in {"sleep", "poll", "log", "csv", "render", "update"}

\* Ctrl+C.  Python raises KeyboardInterrupt in the main thread between any
\* two bytecodes, so it can arrive before, inside or after each call of the
\* statement the process stands at.  Inside the try block of monitor it is
\* caught and the loop ends; before the loop and in run_test nothing catches it.
\* What the interrupted call had already done stays done: the records logged
\* so far, and the rows written so far, which the `with` block flushes on the
\* way out.
KeyboardInterrupt ==
    /\ pc \in {"monitor", "test", "sleep", "poll", "log", "csv", "render", "update"}
    /\ \E entered \in BOOLEAN :
        /\ polls' = IF pc \in {"monitor", "poll"} /\ entered THEN polls + 1 ELSE polls
        /\ renders' = IF pc = "render" /\ entered THEN renders + 1 ELSE renders
        /\ IF pc = "log"
           THEN LET records == log_changes(added, removed, now)
                IN  \E k \in 0..Len(records) :
                      /\ entered = (k > 0)
                      /\ log' = log \o SubSeq(records, 1, k)
           ELSE UNCHANGED log
        /\ IF pc = "csv" /\ entered
           THEN LET writes == CsvWrites(csv_exists, csv, added, removed, now)
                IN  \E k \in 0..Len(writes) :
                      /\ csv_exists' = TRUE
                      /\ csv' = csv \o SubSeq(writes, 1, k)
           ELSE UNCHANGED <<csv_exists, csv>>
    /\ IF InTry
       THEN /\ pc' = "stopped"
            /\ console' = Echo(console, log_to_console, << <<"Monitoring stopped.">> >>)
            /\ UNCHANGED error
       ELSE /\ pc' = "crashed"
            /\ error' = "KeyboardInterrupt"
            /\ UNCHANGED console
    /\ UNCHANGED <<arguments, constructed, log_to_console, file_stamp, log_exists,
                   baseline, snapshot, source_status, io_failed, now, restarts>>
    /\ UNCHANGED pair

\* The operator starts the program again, with the same --output-dir and
\* --prefix, after it has ended.  The files on disk and the clock stay.
Restart ==
    /\ pc \in {"exit", "stopped", "crashed", "done"}
    /\ restarts < MaxRestarts
    /\ restarts' = restarts + 1
    /\ pc' = "start"
    /\ interval' = None
    /\ test_mode' = FALSE
    /\ constructed' = FALSE
    /\ log_to_console' = FALSE
    /\ console' = <<>>
    /\ previous_routes' = <<>>
    /\ previous_gateway' = None
    /\ current_output' = <<>>
    /\ current_routes' = <<>>
    /\ current_gateway' = None
    /\ added' = <<>>
    /\ removed' = <<>>
    /\ source_status' = "none"
    /\ polls' = 0
    /\ renders' = 0
    /\ io_failed' = {}
    /\ error' = None
    /\ UNCHANGED <<files, now>>
    /\ UNCHANGED pair

Next ==
    \/ Main
    \/ MonitorStart
    \/ Sleep
    \/ Poll
    \/ RunTest
    \/ LogChanges
    \/ SaveToCsv
    \/ SaveToCsvFails
    \/ CreateTopologyGraph
    \/ UpdateBaseline
    \/ KeyboardInterrupt
    \/ Restart

Spec == Init /\ [][Next]_vars

\* ------------------------------------------------- two monitors, one feed
process == <<pc, interval, test_mode, constructed, log_to_console, file_stamp,
             log_exists, log, csv_exists, csv, console,
             previous_routes, previous_gateway, current_output, current_routes,
             current_gateway, added, removed, source_status, polls, renders,
             io_failed, error, now, restarts>>

\* Both monitors make their first poll and get the same answer.
PairStart ==
    /\ pair.pc = "monitor"
    /\ \E run \in SourceRuns :
        LET r == get_current_routes(run)
        IN  pair' = IF r.raised # None
                    THEN [pair EXCEPT !.pc = "crashed"]
                    ELSE [pair EXCEPT !.pc = "sleep",
                                      !.loud = monitor_start(@, r.lines, 1),
                                      !.quiet = monitor_start(@, r.lines, 1)]
    /\ UNCHANGED process

\* Both monitors sleep, poll, get the same answer and finish the cycle.
PairCycle ==
    /\ pair.pc = "sleep"
    /\ pair.now < MaxClock
    /\ \E run \in SourceRuns :
        LET r == get_current_routes(run)
        IN  pair' = IF r.raised # None
                    THEN [pair EXCEPT !.pc = "crashed", !.now = @ + 1]
                    ELSE [pair EXCEPT !.now = @ + 1,
                                      !.loud = monitor_cycle(@, r.lines, pair.now + 1),
                                      !.quiet = monitor_cycle(@, r.lines, pair.now + 1)]
    /\ UNCHANGED process

NextPair == PairStart \/ PairCycle

SpecPair == Init /\ [][NextPair]_vars

\* ------------------------------------------------------ the parser alone
\* The longest generated line, in tokens, and the longest generated table,
\* in lines.
MaxTokens == 4
MaxLines == 3

\* Tokens of 'ip route' lines: the two literals the parser looks for, a
\* prefix and an address.
ParseTokens == {"default", "via", "10.0.0.0/8", "192.168.1.1"}

\* Lines as 'ip route' prints them for routes that refer to a nexthop object.
NexthopObjectLines ==
    { Line(<<"10.0.0.0/8", "nhid", "12", "via", "192.168.1.1", "dev", "eth0">>),
      Line(<<"default", "nhid", "12", "via", "192.168.1.1", "dev", "eth0">>) }

\* Ordinary lines for two destinations, two next hops and the default route.
PlainLines ==
    { Line(<<d, "via", h, "dev", "eth0">>) :
        d \in {"10.0.0.0/8", "172.16.0.0/16"}, h \in {"192.168.1.1", "192.168.1.2"} }
    \cup { Line(<<d, "dev", "eth0">>) : d \in {"10.0.0.0/8", "172.16.0.0/16"} }
    \cup { Line(<<"default", "via", "192.168.1.1", "dev", "eth0">>) }

\* The lines a table is composed of: the ordinary ones, those with a nexthop
\* object, and the empty line.
TableLines == PlainLines \cup NexthopObjectLines \cup { <<>> }

ParseUnchanged ==
    UNCHANGED <<arguments, constructed, log_to_console, files, console, baseline,
                added, removed, source_status, polls, renders, io_failed, error,
                now, restarts, pair>>

\* The output handed to parse_routes is a single line that grows by one
\* token, up to MaxTokens: any token of ParseTokens, preceded by its
\* ordinary gap (none before the first token, one blank before the others)
\* or by one blank more.
InputToken ==
    /\ pc \in {"start", "tokens"}
    /\ LET line == IF current_output = <<>> THEN <<>> ELSE current_output[1]
       IN  /\ Len(line) < MaxTokens
           /\ \E tok \in ParseTokens, extra \in {0, 1} :
                current_output' =
                    << Append(line, [gap |-> (IF line = <<>> THEN 0 ELSE 1) + extra,
                                     tok |-> tok]) >>
    /\ pc' = "tokens"
    /\ UNCHANGED <<current_routes, current_gateway>>
    /\ ParseUnchanged

\* The output handed to parse_routes is a table that grows by one line of
\* TableLines, up to MaxLines.
InputLine ==
    /\ pc \in {"start", "lines"}
    /\ Len(current_output) < MaxLines
    /\ \E line \in TableLines : current_output' = Append(current_output, line)
    /\ pc' = "lines"
    /\ UNCHANGED <<current_routes, current_gateway>>
    /\ ParseUnchanged

\* routes, gateway = self.parse_routes(output) on the output composed.
ParseRoutes ==
    /\ pc \in {"start", "tokens", "lines"}
    /\ LET s == parse_routes(current_output)
       IN  /\ current_routes' = s.routes
           /\ current_gateway' = s.gateway
    /\ pc' = "parsed"
    /\ UNCHANGED current_output
    /\ ParseUnchanged

NextParse ==
    \/ InputToken
    \/ InputLine
    \/ ParseRoutes

SpecParse == Init /\ [][NextParse]_vars

\* ============================================================ properties
\* The destinations that occur in the tables above, and "default".
Destinations ==
    {"10.0.0.0/8", "192.168.2.0/24", "192.168.1.0/24", "172.16.0.0/16", "default"}

\* This step is a poll of monitor, or run_test's parsing, that reached the
\* comparison: added and removed are the differ's answer for the baseline and
\* the snapshot just parsed.
Compared ==
    \/ pc = "poll" /\ pc' \in {"log", "sleep"}
    \/ pc = "test" /\ pc' \in {"log", "done"}

FilesUnchanged ==
    /\ log_exists' = log_exists
    /\ log' = log
    /\ csv_exists' = csv_exists
    /\ csv' = csv

\* The key-only law for a `before` A, an `after` B and the differ's answer.
DiffLaw(A, B, add, rem) ==
    /\ Cardinality(Keys(add)) = Len(add)
    /\ Cardinality(Keys(rem)) = Len(rem)
    /\ \A d \in Destinations \cup Keys(A) \cup Keys(B) \cup Keys(add) \cup Keys(rem) :
        /\ Has(add, d) <=> (Has(B, d) /\ ~Has(A, d))
        /\ Has(rem, d) <=> (Has(A, d) /\ ~Has(B, d))
        /\ Has(add, d) => Get(add, d) = Get(B, d)
        /\ Has(rem, d) => Get(rem, d) = Get(A, d)

\* C1.  Key-only diff law: whenever compare_routes has answered for a
\* baseline A and a new snapshot B, a destination is in `added` exactly if it
\* is a key of B and not of A, in `removed` exactly if it is a key of A and not
\* of B, and it carries B's value in `added` and A's value in `removed`.
C1_KeyOnlyDiffLaw ==
    [][Compared => DiffLaw(previous_routes', current_routes', added', removed')]_vars

\* C1 witness: a poll whose diff has an added and a removed destination.
C1_Witness ==
    /\ pc = "log" /\ ~test_mode
    /\ added # <<>> /\ removed # <<>>
    /\ previous_routes # <<>> /\ current_routes # <<>>

\* C2.  No-op stability: a poll after the first whose diff is empty ends its
\* cycle at once, leaves the baseline routes and gateway as they were and
\* writes nothing to the log file or the CSV file.
C2_NoOpStability ==
    [][(pc = "poll" /\ pc' \in {"log", "sleep"} /\ added' = <<>> /\ removed' = <<>>)
        => /\ pc' = "sleep"
           /\ previous_routes' = previous_routes
           /\ previous_gateway' = previous_gateway
           /\ FilesUnchanged]_vars

\* C2 witness: a cycle has ended with an empty diff although the snapshot it
\* polled differs from the baseline, which is still the old one.
C2_Witness ==
    /\ pc = "sleep" /\ polls >= 2
    /\ added = <<>> /\ removed = <<>>
    /\ <<current_routes, current_gateway>> # <<previous_routes, previous_gateway>>

\* C3.  Source-unavailable recovery: after every poll in which 'ip route'
\* could not be started or ended with a non-zero status, the poll has yielded
\* no lines, the log holds an error record, and no exception has ended the
\* process.
C3_SourceUnavailableRecovered ==
    source_status \in {"nonzero", "unavailable"}
        => /\ current_output = <<>>
           /\ \E i \in 1..Len(log) : log[i].levelname = "ERROR"
           /\ pc # "crashed"

\* The change type a log record announces, as the CSV rows name it.
ChangeType(record) == IF record.what = "Added routes" THEN "Added" ELSE "Removed"

\* The CSV file holds the row of `route` for the batch `record` belongs to.
HasRow(record, route) ==
    \E j \in 1..Len(csv) :
        /\ csv[j][1] = ChangeType(record)
        /\ csv[j][2] = route
        /\ csv[j][6] = record.asctime

\* C4.  No partial batch on interrupt: once an interrupt has stopped the
\* monitor loop, every batch that has a log entry has all of its CSV rows.
C4_NoPartialBatch ==
    pc = "stopped"
        => \A i \in 1..Len(log) :
             \A k \in 1..Len(log[i].routes) : HasRow(log[i], log[i].routes[k])

HeaderOnce(rows) ==
    rows # <<>> => /\ rows[1] = HeaderRow
                   /\ \A i \in 2..Len(rows) : rows[i] # HeaderRow

HeaderCount(rows) == Cardinality({i \in 1..Len(rows) : rows[i] = HeaderRow})

\* C5.  CSV header-once: after every step the CSV file, if it has rows, has
\* the header as its first row and nowhere else; and a step adds a header
\* only to a file that did not exist or was empty before it.
C5_CsvHeaderOnce ==
    [][/\ HeaderOnce(csv')
       /\ HeaderCount(csv') > HeaderCount(csv) => (~csv_exists \/ csv = <<>>)]_vars

\* C5 witness: the batch of a test run and the batch of a monitor started
\* again in the same second, hence on the same path, stand in one file.
C5_Witness ==
    /\ restarts >= 1
    /\ pc = "render"
    /\ \E i, j \in 1..Len(csv) : csv[i][6] = Strftime(0) /\ csv[j][6] = Strftime(1)

\* C6.  Blind spot: whenever compare_routes has answered, a destination that
\* is a key of the baseline and of the new snapshot with different next hops
\* is in neither `added` nor `removed`; and a poll of monitor whose snapshot
\* has the baseline's keys ends its cycle at once and writes nothing.
C6_BlindSpot ==
    [][/\ Compared =>
            \A d \in Keys(previous_routes') \cap Keys(current_routes') :
                NextHop(Get(previous_routes', d)) # NextHop(Get(current_routes', d))
                    => ~Has(added', d) /\ ~Has(removed', d)
       /\ (pc = "poll" /\ pc' \in {"log", "sleep"}
               /\ Keys(current_routes') = Keys(previous_routes))
            => pc' = "sleep" /\ FilesUnchanged]_vars

\* C6 witness: a cycle has ended in which a destination kept its key and
\* changed its next hop, and the diff was empty.
C6_Witness ==
    /\ pc = "sleep" /\ polls >= 2
    /\ added = <<>> /\ removed = <<>>
    /\ \E d \in Keys(previous_routes) \cap Keys(current_routes) :
          NextHop(Get(previous_routes, d)) # NextHop(Get(current_routes, d))

\* C7.  Persistence failure propagates: once a write of a log record or of a
\* CSV row has failed, the process has ended with the exception.
C7_PersistenceFailurePropagates ==
    io_failed # {} => pc = "crashed" /\ error = "OSError"

\* C8.  Invalid configuration is rejected before any work: a process whose
\* interval is below 1 has left main at once, with or without --test: it has
\* printed the complaint, constructed no tracker, polled and rendered nothing,
\* and the step that parsed the arguments changed no file.
C8_InvalidIntervalRejected ==
    [][(pc' # "start" /\ interval' < 1)
        => /\ pc' = "exit"
           /\ ~constructed'
           /\ polls' = 0 /\ renders' = 0
           /\ console' = << <<"Error: Interval must be at least 1 second">> >>
           /\ file_stamp' = file_stamp
           /\ FilesUnchanged]_vars

\* C8 witness: the program was started with --test and an interval of 0, has
\* left main, and no file exists.
C8_Witness ==
    /\ pc = "exit" /\ interval = 0 /\ test_mode
    /\ ~log_exists /\ ~csv_exists

\* What a monitor has persisted and the baseline it holds.
Persisted(t) ==
    <<t.log, t.csv_exists, t.csv, t.previous_routes, t.previous_gateway>>

\* C9.  Console independence of persistence: two monitors that differ only in
\* log_to_console and are fed the same poll results hold, after every cycle,
\* the same log records, the same CSV rows and the same baseline.
C9_ConsoleIndependence ==
    Persisted(pair.loud) = Persisted(pair.quiet)

\* C9 witness: both monitors have recorded two batches, and only the one with
\* console output has printed anything.
C9_Witness ==
    /\ pair.pc = "sleep"
    /\ Len(pair.quiet.log) >= 2 /\ Len(pair.quiet.csv) >= 3
    /\ Len(pair.loud.console) > 0 /\ Len(pair.quiet.console) = 0

Route(destination, next_hop) == [key |-> destination, value |-> <<None, None, next_hop>>]

\* C10.  Concrete scenario: once run_test has parsed and compared its two
\* tables, the before snapshot holds 192.168.1.0/24 direct, 172.16.0.0/16 via
\* 192.168.1.1 and 10.0.0.0/8 via 192.168.1.1, the after snapshot holds the
\* same with 10.0.0.0/8 via 192.168.1.2 and 192.168.2.0/24 via 192.168.1.1,
\* both have gateway 192.168.1.1, `added` is exactly 192.168.2.0/24 via
\* 192.168.1.1 and `removed` is empty.
C10_EmbeddedTables ==
    (test_mode /\ pc \in {"log", "csv", "render", "done"})
        => /\ previous_routes = << Route("192.168.1.0/24", "direct"),
                                   Route("172.16.0.0/16", "192.168.1.1"),
                                   Route("10.0.0.0/8", "192.168.1.1") >>
           /\ current_routes = << Route("192.168.1.0/24", "direct"),
                                  Route("172.16.0.0/16", "192.168.1.1"),
                                  Route("10.0.0.0/8", "192.168.1.2"),
                                  Route("192.168.2.0/24", "192.168.1.1") >>
           /\ previous_gateway = "192.168.1.1"
           /\ current_gateway = "192.168.1.1"
           /\ added = << Route("192.168.2.0/24", "192.168.1.1") >>
           /\ removed = <<>>

\* C10 witness: a test run has ended after recording its batch.
C10_Witness ==
    /\ test_mode /\ pc = "done"
    /\ Len(log) = 1 /\ Len(csv) = 2

BaselineUnchanged ==
    /\ previous_routes' = previous_routes
    /\ previous_gateway' = previous_gateway

\* The CSV rows hold a row of the given type for every entry of d, stamped t.
RowsPresent(rows, change_type, d, t) ==
    \A i \in 1..Len(d) :
        \E j \in 1..Len(rows) :
            /\ rows[j][1] = change_type
            /\ rows[j][2] = d[i].key
            /\ rows[j][6] = Strftime(t)

\* C11.  Change cycle ordering and baseline replacement: in a cycle of monitor
\* whose diff is not empty the poll is followed by log_changes, which touches
\* neither the CSV file, the renderer nor the baseline; then by save_to_csv,
\* after which the rows of the batch are in the file; then by the renderer,
\* called on the snapshot just polled with the baseline still the old one;
\* then by the replacement of the baseline, after which the baseline routes
\* and gateway are those of the snapshot just polled.
C11_ChangeCycleOrder ==
    [][~test_mode =>
        /\ (pc = "poll" /\ pc' \in {"log", "sleep"} /\ Changed(added', removed'))
              => pc' = "log" /\ FilesUnchanged /\ BaselineUnchanged /\ renders' = renders
        /\ pc = "log"
              => /\ pc' \in {"csv", "stopped"}
                 /\ csv' = csv /\ csv_exists' = csv_exists
                 /\ BaselineUnchanged /\ renders' = renders
        /\ pc = "csv"
              => /\ pc' \in {"render", "crashed", "stopped"}
                 /\ log' = log /\ BaselineUnchanged /\ renders' = renders
                 /\ pc' = "render" => /\ RowsPresent(csv', "Added", added, now)
                                      /\ RowsPresent(csv', "Removed", removed, now)
        /\ pc = "render"
              => /\ pc' \in {"update", "crashed", "stopped"}
                 /\ FilesUnchanged /\ BaselineUnchanged
                 /\ pc' = "update" => renders' = renders + 1
                 /\ current_routes = parse_routes(current_output).routes
                 /\ current_gateway = parse_routes(current_output).gateway
        /\ pc = "update"
              => /\ pc' \in {"sleep", "stopped"}
                 /\ FilesUnchanged /\ renders' = renders
                 /\ pc' = "sleep"
                      => /\ previous_routes' = parse_routes(current_output).routes
                         /\ previous_gateway' = parse_routes(current_output).gateway]_vars

\* C11 witness: a change cycle has completed in which routes and gateway of
\* the baseline were both replaced, after a batch was logged, written and
\* rendered.
C11_Witness ==
    /\ ~test_mode /\ pc = "sleep" /\ polls = 2 /\ renders = 1
    /\ added # <<>>
    /\ Len(log) >= 1 /\ Len(csv) >= 2
    /\ previous_routes = current_routes /\ previous_gateway = current_gateway
    /\ previous_gateway # None

\* The snapshot of the poll before the one being made: the first poll of
\* monitor stores its snapshot in the baseline only, every later one in
\* current_routes.
PrecedingRoutes == IF polls = 1 THEN previous_routes ELSE current_routes

\* A poll of the monitor loop that found a batch to record.
PolledBatch == ~test_mode /\ pc = "poll" /\ pc' = "log"

KeyDiffOf(before, after, a, r) ==
    /\ Keys(a) = Keys(after) \ Keys(before)
    /\ Keys(r) = Keys(before) \ Keys(after)

\* Every entry of d carries the next hop its destination has in `from`.
CarriesHopOf(d, from) ==
    \A i \in 1..Len(d) :
        /\ Has(from, d[i].key)
        /\ NextHop(d[i].value) = NextHop(Get(from, d[i].key))

\* The data rows a step appended to the CSV file.
NewRows ==
    LET n == SubSeq(csv', Len(csv) + 1, Len(csv'))
    IN  IF n # <<>> /\ Head(n) = HeaderRow THEN Tail(n) ELSE n

\* The rows of the given type have exactly the destinations of d, each with
\* the next hop it has in `from`.
RowsCarryHopOf(rows, change_type, d, from) ==
    /\ {rows[j][2] : j \in {k \in 1..Len(rows) : rows[k][1] = change_type}} = Keys(d)
    /\ \A j \in 1..Len(rows) :
          rows[j][1] = change_type
            => /\ Has(from, rows[j][2])
               /\ rows[j][5] = CsvField(NextHop(Get(from, rows[j][2])))

\* C12 as stated.  Each recorded change batch is the diff between two
\* consecutive polls: the Added and Removed destinations are the key diff
\* between the snapshot of the immediately preceding poll and that of the
\* current poll, an Added entry carries the next hop of the current poll and
\* a Removed entry the next hop the route had in the immediately preceding
\* poll.
C12_ConsecutivePollDiff ==
    [][PolledBatch
        => /\ KeyDiffOf(PrecedingRoutes, current_routes', added', removed')
           /\ CarriesHopOf(added', current_routes')
           /\ CarriesHopOf(removed', PrecedingRoutes)]_vars

\* C12 amended.  Each recorded change batch is the diff between the baseline
\* and the current poll: its Added and Removed destinations are the key diff
\* between the baseline and the snapshot of the current poll, which is also
\* the key diff against the immediately preceding poll; an Added entry
\* carries the next hop of the current poll, a Removed entry the next hop the
\* baseline holds, which is the one of the poll that last seeded or replaced
\* the baseline; the rows save_to_csv writes carry these destinations and hops.
C12_BaselineDiff ==
    [][/\ PolledBatch
            => /\ KeyDiffOf(previous_routes, current_routes', added', removed')
               /\ KeyDiffOf(PrecedingRoutes, current_routes', added', removed')
               /\ CarriesHopOf(added', current_routes')
               /\ CarriesHopOf(removed', previous_routes)
       /\ (~test_mode /\ pc = "csv" /\ pc' = "render")
            => /\ RowsCarryHopOf(NewRows, "Added", added, current_routes)
               /\ RowsCarryHopOf(NewRows, "Removed", removed, previous_routes)]_vars

\* C12 witness: the third poll of a first run recorded a removal, the only
\* batch so far, so that the poll before it left the baseline of the first
\* poll in place; the row carries the next hop of that baseline.
C12_Witness ==
    /\ ~test_mode /\ pc = "render" /\ polls = 3
    /\ removed # <<>>
    /\ \E j \in 1..Len(csv) :
          /\ csv[j][1] = "Removed"
          /\ csv[j][2] = removed[1].key
          /\ csv[j][5] = "192.168.1.1"
    /\ restarts = 0 /\ Len(csv) = 2

\* C13.  The renderer has no influence: once create_topology_graph has been
\* called in a cycle of monitor, whether it returns or raises, the recorded
\* batch stays in the files and the cycle goes on to replace the baseline and
\* to the next poll.
C13_RendererNoInfluence ==
    [][(~test_mode /\ pc = "render" /\ renders' = renders + 1
            /\ error' # "KeyboardInterrupt")
        => pc' = "update" /\ FilesUnchanged]_vars

\* C14.  The first poll only seeds state: it makes its snapshot the baseline;
\* until the second poll of monitor has been made no step writes a log entry
\* or a CSV row or calls the renderer, whatever the first table holds; and a
\* first run that has polled at most once has an empty log, an empty CSV
\* file and no rendering.
C14_FirstPollSeedsOnly ==
    [][/\ (pc = "monitor" /\ pc' = "sleep")
            => /\ previous_routes' = parse_routes(current_output').routes
               /\ previous_gateway' = parse_routes(current_output').gateway
       /\ (~test_mode /\ pc \in {"monitor", "sleep", "poll"} /\ polls <= 1)
            => /\ FilesUnchanged
               /\ renders' = renders
               /\ pc' \in {"sleep", "poll", "log", "crashed", "stopped"}
               /\ pc' = "log" => polls' = 2
       /\ (~test_mode' /\ constructed' /\ restarts' = 0 /\ polls' <= 1)
            => log' = <<>> /\ csv' = <<>> /\ ~csv_exists' /\ renders' = 0]_vars

\* C14 witness: the first poll returned a table with a route and a gateway,
\* the loop is about to make its second poll, and nothing has been recorded.
C14_Witness ==
    /\ ~test_mode /\ pc = "poll" /\ polls = 1 /\ restarts = 0
    /\ previous_routes # <<>> /\ previous_gateway # None
    /\ log = <<>> /\ csv = <<>> /\ renders = 0

\* A first poll that returned no line at all has seeded an empty baseline.
C14_EmptyTableSeeded ==
    /\ ~test_mode /\ pc = "poll" /\ polls = 1
    /\ current_output = <<>> /\ previous_routes = <<>>

\* The single line parse_routes was given, and its tokens.
TheLine == current_output[1]
TheParts == Split(TheLine)

\* The positions of a token via that has a token after it and stands after
\* the first token.
ViaWithAddress == {i \in 2..(Len(TheParts) - 1) : TheParts[i] = "via"}

\* C15.  The destination of a via route is the first token: for a line whose
\* first token is not default and that holds the token via, followed by an
\* address, somewhere after its first token, parse_routes registers the route
\* from the first token to that address, also when other tokens stand
\* between the first token and via.
C15_ViaDestinationFirstToken ==
    (pc = "parsed" /\ Len(current_output) = 1 /\ Len(TheParts) >= 1
        /\ TheParts[1] # "default" /\ ViaWithAddress # {})
    => \E i \in ViaWithAddress : current_routes = << Route(TheParts[1], TheParts[i + 1]) >>

\* C16.  Default lines never become routes: for a line whose first token is
\* the literal default, parse_routes adds no entry to the mapping; if the
\* line has an address following via that address is the gateway, otherwise
\* the line leaves the gateway absent as well.
C16_DefaultNeverRoute ==
    (pc = "parsed" /\ Len(current_output) = 1 /\ Len(TheParts) >= 1
        /\ TheParts[1] = "default")
    => /\ current_routes = <<>>
       /\ IF ViaWithAddress # {}
          THEN \E i \in ViaWithAddress : current_gateway = TheParts[i + 1]
          ELSE current_gateway = None

\* What the line at position i registers when parsed by itself.
Registers(i) == parse_routes(<<current_output[i]>>).routes
RegisteringLines(d) == {i \in 1..Len(current_output) : Has(Registers(i), d)}
Last(S) == CHOOSE i \in S : \A j \in S : j <= i

\* C18.  Last write wins on duplicate destinations: the mapping parse_routes
\* returns has exactly one entry for every destination some line registers,
\* no other entry, and the entry carries the value of the last line that
\* registers the destination.
C18_LastWriteWins ==
    pc = "parsed"
    => /\ Keys(current_routes) = UNION {Keys(Registers(i)) : i \in 1..Len(current_output)}
       /\ \A d \in Keys(current_routes) :
            /\ Cardinality({j \in 1..Len(current_routes) : current_routes[j].key = d}) = 1
            /\ Get(current_routes, d) = Get(Registers(Last(RegisteringLines(d))), d)

\* C18 witness: three lines registered the same destination, the last with
\* another next hop than the first two, and the mapping holds the last.
C18_Witness ==
    /\ pc = "parsed" /\ Len(current_output) = 3
    /\ RegisteringLines("10.0.0.0/8") = {1, 2, 3}
    /\ NextHop(Get(Registers(1), "10.0.0.0/8")) = "192.168.1.1"
    /\ NextHop(Get(Registers(2), "10.0.0.0/8")) = "192.168.1.1"
    /\ NextHop(Get(Registers(3), "10.0.0.0/8")) = "192.168.1.2"
    /\ current_routes = << Route("10.0.0.0/8", "192.168.1.2") >>

\* C17.  CSV batch layout: a call of save_to_csv that runs to its end appends
\* one row per entry of added followed by one row per entry of removed, all
\* Added rows before all Removed rows, every row with the one timestamp of
\* the call and with empty admin-distance and metric fields; and no step on
\* the same files modifies or removes a row that is already there.
C17_CsvBatchLayout ==
    [][/\ (pc = "csv" /\ pc' = "render")
            => LET D == NewRows
               IN  /\ Len(D) = Len(added) + Len(removed)
                   /\ \A i \in 1..Len(added) :
                        D[i][1] = "Added" /\ D[i][2] = added[i].key
                   /\ \A i \in 1..Len(removed) :
                        /\ D[Len(added) + i][1] = "Removed"
                        /\ D[Len(added) + i][2] = removed[i].key
                   /\ \A i \in 1..Len(D) :
                        /\ D[i][3] = "" /\ D[i][4] = ""
                        /\ D[i][6] = D[1][6]
                        /\ D[i][6] = Strftime(now)
       /\ file_stamp' = file_stamp
            => /\ Len(csv') >= Len(csv)
               /\ SubSeq(csv', 1, Len(csv)) = csv]_vars

\* C17 witness: the file holds the header, the row of a first batch and,
\* under a later timestamp, the Added row and then the Removed row of a
\* second batch.
C17_Witness ==
    /\ ~test_mode /\ pc = "render" /\ polls = 3 /\ restarts = 0
    /\ Len(csv) = 4 /\ csv[1] = HeaderRow
    /\ csv[3][1] = "Added" /\ csv[4][1] = "Removed"
    /\ csv[3][6] = csv[4][6] /\ csv[2][6] # csv[3][6]

\* C19.  Baseline key set: at the end of every completed cycle of monitor,
\* with or without a detected change, the baseline has the keys of the
\* snapshot polled in that cycle.
C19_BaselineKeySet ==
    (~test_mode /\ pc = "sleep" /\ polls >= 2)
    => /\ current_routes = parse_routes(current_output).routes
       /\ Keys(previous_routes) = Keys(current_routes)

\* C19 witness: a cycle without a detected change has completed with a
\* baseline that differs from the polled snapshot in a next hop only.
C19_Witness ==
    /\ ~test_mode /\ pc = "sleep" /\ polls >= 2
    /\ previous_routes # <<>>
    /\ previous_routes # current_routes
    /\ Keys(previous_routes) = Keys(current_routes)

\* C20.  Gateway-only changes are invisible: a poll of monitor whose snapshot
\* has the routes of the baseline and another gateway (one that appeared,
\* disappeared or changed) writes nothing, goes back to sleep without the
\* renderer and leaves the baseline gateway as it was; inside the loop the
\* baseline gateway changes only in the step that also replaces the baseline
\* routes, in a cycle whose key diff is not empty.
C20_GatewayOnlyInvisible ==
    [][/\ (~test_mode /\ pc = "poll" /\ pc' \in {"log", "sleep"}
            /\ current_routes' = previous_routes
            /\ current_gateway' # previous_gateway)
            => /\ pc' = "sleep"
               /\ FilesUnchanged /\ renders' = renders
               /\ BaselineUnchanged
       /\ (previous_gateway' # previous_gateway /\ pc \notin {"monitor", "test"}
            /\ pc' # "start")
            => /\ pc = "update"
               /\ Keys(previous_routes) # Keys(current_routes)
               /\ Changed(added, removed)
               /\ previous_routes' = current_routes
               /\ previous_gateway' = current_gateway]_vars

\* C20 witness: the second poll returned the routes of the baseline with
\* another gateway address; nothing was recorded or rendered and the
\* baseline still has the old gateway.
C20_Witness ==
    /\ ~test_mode /\ pc = "sleep" /\ polls = 2 /\ restarts = 0
    /\ previous_routes # <<>> /\ previous_routes = current_routes
    /\ previous_gateway # None /\ current_gateway # None
    /\ previous_gateway # current_gateway
    /\ log = <<>> /\ csv = <<>> /\ renders = 0

\* The same with a gateway that disappeared, and with one that appeared.
C20_GatewayDisappeared ==
    /\ ~test_mode /\ pc = "sleep" /\ polls = 2
    /\ previous_routes # <<>> /\ previous_routes = current_routes
    /\ previous_gateway # None /\ current_gateway = None

C20_GatewayAppeared ==
    /\ ~test_mode /\ pc = "sleep" /\ polls = 2
    /\ previous_routes # <<>> /\ previous_routes = current_routes
    /\ previous_gateway = None /\ current_gateway # None

====
